---- MODULE Spec2Model ----
(***************************************************************************)
(* Model of the UELogic meter store (api/models.py), the REST ingestion of *)
(* readings (api/views.py), the compute_register_consumption management    *)
(* command, which differences Accumulated readings into Consumption        *)
(* readings, and the CSV loaders load_allocations, load_formulas and       *)
(* load_hierarchy.                                                         *)
(***************************************************************************)
EXTENDS Bags, FiniteSets, Integers, Sequences, TLC

\* ---------------------------------------------------------------- bounds
MaxRows == 3    \* rows the Reading table may hold
MaxCsvRows == 2 \* data rows a loader reads from one CSV

\* ------------------------------------------------------- enumerated types
NoneVal == "None"

\* Meter.MeterType
MeterType == [FISCAL |-> "fiscal", SUB |-> "sub", VIRTUAL |-> "virtual"]

\* Reading.Classification
Classification ==
  [ACTUAL |-> "Actual", ESTIMATED |-> "Estimated", MANUAL |-> "Manual", SYSTEM |-> "System"]

\* Reading.Source
Source == [API |-> "API", CSV |-> "CSV", MANUAL |-> "Manual"]

\* Reading.Kind
Kind == [ACCUMULATED |-> "Accumulated", CONSUMPTION |-> "Consumption"]

\* Attribute access on a choices class: a name that is not a member raises.
HasMember(enum, name) == name \in DOMAIN enum

\* unique_together of Reading
ReadingUniqueTogether == {"meter", "ts"}

\* ------------------------------------------------------------ the catalog
\* A Meter row; building and account are held by name (they are unique per
\* org), parent by pk, and an absent value is NoneVal (0 for the parent).
Meter(org, building, identifier, external_id, meter_type, is_active) ==
  [org |-> org, building |-> building, account |-> NoneVal, identifier |-> identifier,
   external_id |-> external_id, meter_type |-> meter_type, parent |-> 0,
   unit |-> "kWh", is_active |-> is_active]

\* The Meter rows the commands run over: pk |-> row.
Meters ==
  [i \in 1..3 |->
     IF i = 1 THEN Meter("Org1", "SiteA", "M1", "S1", MeterType.SUB, TRUE)
     ELSE IF i = 2 THEN Meter("Org1", "SiteB", "M2", "S2", MeterType.SUB, TRUE)
     ELSE Meter("Org1", "SiteA", "M3", "S3", MeterType.FISCAL, TRUE)]

\* Meter 3 as a fiscal, a virtual or an inactive sub meter.
MeterCatalogs ==
  {[Meters EXCEPT ![3] = Meter("Org1", "SiteA", "M3", "S3", t[1], t[2])] :
     t \in {<<MeterType.FISCAL, TRUE>>, <<MeterType.VIRTUAL, TRUE>>, <<MeterType.SUB, FALSE>>}}

\* the timestamps and register values of the readings posted
Timestamps == {1, 2, 3}
Values == {0, 1}
Units == {"kWh"}
\* the readings posted are register reads
IngestKinds == {Kind.ACCUMULATED}

\* command-line choices of compute_register_consumption
SiteChoices == {NoneVal, "SiteA", "SiteB"}
\* --since / --until: <<>> when the option is absent, <<t>> when given
WindowChoices == {[since |-> <<>>, until |-> <<>>], [since |-> <<2>>, until |-> <<3>>]}

VARIABLES
  db,        \* the Reading table: a bag of rows
  last,      \* the last operation on readings: arguments, outcome and output
  meters,    \* the Meter table: pk |-> row
  orgs,      \* the Organization table: the names
  buildings, \* the Building table: rows [org, name]
  accounts,  \* the Account table: rows [org, name]
  allocs,    \* the VirtualAllocation table: a bag of rows
  formulas,  \* the Formula table: a bag of rows
  load       \* the loader command in progress or last run

vars == <<db, last, meters, orgs, buildings, accounts, allocs, formulas, load>>

\* what the operations on readings leave alone
catalogVars == <<meters, orgs, buildings, accounts, allocs, formulas, load>>

MeterIds == DOMAIN meters

\* ------------------------------------------------------------ the Reading table
Row(m, ts, value, unit, classification, source, kind) ==
  [meter |-> m, ts |-> ts, value |-> value, unit |-> unit,
   classification |-> classification, source |-> source, kind |-> kind]

Rows(table) == BagToSet(table)

\* Two rows collide when they agree on every field of a unique_together.
Collides(r, s, fields) == \A f \in fields : r[f] = s[f]

\* INSERT: rejected with IntegrityError when the unique constraint is violated.
CanInsert(table, r) == \A s \in Rows(table) : ~Collides(r, s, ReadingUniqueTogether)

Insert(table, r) == table (+) SetToBag({r})

\* ----------------------------------------------------------------- helpers
Perms(S) ==
  {f \in [1..Cardinality(S) -> S] : \A i, j \in 1..Cardinality(S) : i # j => f[i] # f[j]}

\* m.readings.filter(kind=ACCUMULATED).order_by("ts").values_list("ts","value","unit")
RECURSIVE SortByTs(_)
SortByTs(S) ==
  IF S = {} THEN <<>>
  ELSE LET first == CHOOSE r \in S : \A s \in S : r.ts <= s.ts
       IN <<first>> \o SortByTs(S \ {first})

Reads(table, m) ==
  LET sq == SortByTs({r \in Rows(table) : r.meter = m /\ r.kind = Kind.ACCUMULATED})
  IN [i \in 1..Len(sq) |-> <<sq[i].ts, sq[i].value, sq[i].unit>>]

\* SelectMeters without the meter_type and is_active filters.
SelectMeters_unfiltered(site) ==
  {m \in MeterIds : site # NoneVal => meters[m].building = site}

\* Meter.objects.filter(meter_type=SUB, is_active=True)[.filter(building__name=site)]
SelectMeters(site) ==
  {m \in MeterIds :
     /\ meters[m].meter_type = MeterType.SUB
     /\ meters[m].is_active
     /\ (site # NoneVal => meters[m].building = site)}

\* ------------------------------------------------------------------- state
NoRun ==
  [op |-> "none", opts |-> [site |-> NoneVal, since |-> <<>>, until |-> <<>>],
   order |-> <<>>, raised |-> NoneVal, raisedAt |-> <<>>, processed |-> 0,
   deltas |-> <<>>, visited |-> <<>>, before |-> EmptyBag, stdout |-> <<>>, rerun |-> FALSE]

\* No loader command has run.
NoLoad == [op |-> "none", pc |-> "idle"]

OrgsOf(ms) == {ms[m].org : m \in DOMAIN ms}
BuildingsOf(ms) == {[org |-> ms[m].org, name |-> ms[m].building] : m \in DOMAIN ms}

Init ==
  /\ db = EmptyBag
  /\ last = NoRun
  /\ meters \in MeterCatalogs
  /\ orgs = OrgsOf(meters)
  /\ buildings = BuildingsOf(meters)
  /\ accounts = {}
  /\ allocs = EmptyBag
  /\ formulas = EmptyBag
  /\ load = NoLoad

\* ReadingViewSet.create: POST /readings; the serializer's unique_together
\* validator rejects a second row for the same (meter, ts).
ReadingCreate ==
  \E m \in MeterIds, ts \in Timestamps, v \in Values, u \in Units, k \in IngestKinds :
    LET r == Row(m, ts, v, u, Classification.ACTUAL, Source.API, k) IN
    /\ BagCardinality(db) < MaxRows
    /\ CanInsert(db, r)
    /\ db' = Insert(db, r)
    /\ last' = [NoRun EXCEPT !.op = "create"]
    /\ UNCHANGED catalogVars

\* ReadingViewSet.destroy: DELETE /readings/<pk>
ReadingDestroy ==
  \E r \in Rows(db) :
    /\ db' = db (-) SetToBag({r})
    /\ last' = [NoRun EXCEPT !.op = "destroy"]
    /\ UNCHANGED catalogVars

\* ------------------------------------------- compute_register_consumption
\* The running state of Command.handle inside its transaction.
Start(table) ==
  [db |-> table, processed |-> 0, raised |-> NoneVal, raisedAt |-> <<>>,
   deltas |-> <<>>, visited |-> <<>>]

Raise(st, exc, m, t1) ==
  [st EXCEPT !.raised = exc, !.raisedAt = <<[meter |-> m, ts |-> t1]>>]

\* Reading.objects.update_or_create(meter=, ts=, kind=, defaults=): the row
\* matching the lookup is updated; without one a row is created, and the
\* INSERT fails when it breaks the table's unique constraint.
update_or_create(st, m, t1, kind, defaults) ==
  LET found == {r \in Rows(st.db) : r.meter = m /\ r.ts = t1 /\ r.kind = kind}
      new == Row(m, t1, defaults.value, defaults.unit, defaults.classification,
                 defaults.source, kind)
  IN IF Cardinality(found) = 1 /\ CopiesIn(CHOOSE r \in found : TRUE, st.db) = 1
       THEN [st EXCEPT !.db = (st.db (-) SetToBag(found)) (+) SetToBag({new})]
     ELSE IF found # {}
       THEN Raise(st, "MultipleObjectsReturned", m, t1)
     ELSE IF CanInsert(st.db, new)
       THEN [st EXCEPT !.db = Insert(st.db, new)]
     ELSE Raise(st, "IntegrityError", m, t1)

\* WriteConsumption with a plain create() on an unconstrained table: every
\* pair appends a row.
WriteConsumption_append(st, m, t1, delta, unit) ==
  [st EXCEPT !.db = Insert(@, Row(m, t1, delta, unit, Classification.SYSTEM, "System",
                                   Kind.CONSUMPTION)),
             !.processed = @ + 1]

\* Lines 55-66: build the defaults (Reading.Classification.SYSTEM,
\* Reading.Source.SYSTEM), upsert the Consumption row, count it.
WriteConsumption(st, m, t1, delta, unit) ==
  IF ~HasMember(Kind, "CONSUMPTION") \/ ~HasMember(Classification, "SYSTEM")
     \/ ~HasMember(Source, "SYSTEM")
    THEN Raise(st, "AttributeError", m, t1)
  ELSE LET w == update_or_create(st, m, t1, Kind.CONSUMPTION,
                   [value |-> delta, unit |-> unit,
                    classification |-> Classification["SYSTEM"],
                    source |-> Source["SYSTEM"]])
       IN IF w.raised # NoneVal THEN w ELSE [w EXCEPT !.processed = @ + 1]

\* Lines 49-53: one adjacent pair (t0,v0),(t1,v1).
PairBody(st, m, unit, p0, p1) ==
  LET delta == p1[2] - p0[2]
      st1 == [st EXCEPT !.deltas = Append(@, [meter |-> m, t0 |-> p0[1], t1 |-> p1[1],
                                              v0 |-> p0[2], v1 |-> p1[2], delta |-> delta])]
  IN IF delta < 0 THEN st1 ELSE WriteConsumption(st1, m, p1[1], delta, unit)

\* for ... in zip(reads, reads[1:])
RECURSIVE ForPairs(_, _, _, _, _)
ForPairs(st, m, unit, reads, i) ==
  IF i >= Len(reads) \/ st.raised # NoneVal THEN st
  ELSE ForPairs(PairBody(st, m, unit, reads[i], reads[i + 1]), m, unit, reads, i + 1)

\* MeterBody with "unit = reads[0][2]" taken before the length test: an
\* empty series raises IndexError.
MeterBody_unitfirst(st, m) ==
  LET reads == Reads(st.db, m)
      st1 == [st EXCEPT !.visited = Append(@, m)]
  IN IF Len(reads) = 0 THEN Raise(st1, "IndexError", m, 0)
     ELSE IF Len(reads) < 2 THEN st1
     ELSE ForPairs(st1, m, reads[1][3], reads, 1)

\* Lines 40-48: the body of "for m in meters".
MeterBody(st, m) ==
  LET reads == Reads(st.db, m)
      st1 == [st EXCEPT !.visited = Append(@, m)]
  IN IF Len(reads) < 2 THEN st1
     ELSE ForPairs(st1, m, reads[1][3], reads, 1)

RECURSIVE ForMeters(_, _, _)
ForMeters(st, order, i) ==
  IF i > Len(order) \/ st.raised # NoneVal THEN st
  ELSE ForMeters(MeterBody(st, order[i]), order, i + 1)

\* with transaction.atomic(): an exception leaving the block rolls back.
Atomic(before, st) == IF st.raised # NoneVal THEN before ELSE st.db

\* Lines 33-35 and 68: what the command prints.
Stdout(order, st) ==
  IF Len(order) = 0 THEN <<[msg |-> "No sub meters to process.", n |-> 0]>>
  ELSE IF st.raised # NoneVal THEN <<>>
  ELSE <<[msg |-> "Wrote/updated consumption intervals.", n |-> st.processed]>>

\* Command.handle; list(qs) has no order_by, so the meters come in any order.
ComputeRegisterConsumption ==
  \E site \in SiteChoices, window \in WindowChoices :
    \E order \in Perms(SelectMeters(site)) :
      LET opts == [site |-> site, since |-> window.since, until |-> window.until]
          st == ForMeters(Start(db), order, 1)
      IN /\ db' = Atomic(db, st)
         /\ last' = [op |-> "compute", opts |-> opts, order |-> order,
                     raised |-> st.raised, raisedAt |-> st.raisedAt,
                     processed |-> st.processed, deltas |-> st.deltas,
                     visited |-> st.visited, before |-> db,
                     stdout |-> Stdout(order, st),
                     rerun |-> (last.op = "compute" /\ last.opts = opts)]
         /\ UNCHANGED catalogVars

Next == ReadingCreate \/ ReadingDestroy \/ ComputeRegisterConsumption

Spec == Init /\ [][Next]_vars

\* ========================================================= load_allocations
\* A float as Python holds it: a number, NaN or an infinity.
Num(v) == [tag |-> "num", v |-> v]
NaN == [tag |-> "nan", v |-> 0]
Inf == [tag |-> "inf", v |-> 0]

\* a < b and a > b on floats: every comparison with NaN is False.
FloatLt(a, b) ==
  /\ a.tag # "nan" /\ b.tag # "nan"
  /\ \/ (a.tag = "num" /\ b.tag = "inf")
     \/ (a.tag = "num" /\ b.tag = "num" /\ a.v < b.v)
FloatGt(a, b) == FloatLt(b, a)

\* The text of a percent cell: its characters before a trailing run of '%'.
PctCell(text, suffix) == [text |-> text, suffix |-> suffix]

\* norm(cell).rstrip("%")
PctStrip(cell) == cell.text

\* float(s): the parsed value, or <<>> for ValueError.
Float(text) ==
  CASE text = "60" -> <<Num(60)>>
    [] text = "30" -> <<Num(30)>>
    [] text = "150" -> <<Num(150)>>
    [] text = "-5" -> <<Num(-5)>>
    [] text = "nan" -> <<NaN>>
    [] text = "inf" -> <<Inf>>
    [] OTHER -> <<>>

\* the cells of the CSVs loaded
AllocOrgNames == {"Org1", "OrgX"}
AllocIdents == {"M1", "M2", "M9"}
PctCells ==
  {PctCell("60", ""), PctCell("30", "%"), PctCell("150", ""), PctCell("-5", ""),
   PctCell("nan", ""), PctCell("inf", ""), PctCell("abc", "")}

AllocRows ==
  {[org |-> o, parent |-> p, child |-> c, pct |-> x] :
     o \in AllocOrgNames, p \in AllocIdents, c \in AllocIdents, x \in PctCells}

\* Meter.objects.get(org=, identifier=): the pks matching.
MeterGet(org, ident) ==
  {m \in MeterIds : meters[m].org = org /\ meters[m].identifier = ident}

\* DecimalField.to_python of a float, as the save of VirtualAllocation.percent
\* applies it: NaN is not a valid decimal.
DecimalOk(f) == f.tag = "num"

\* VirtualAllocation.objects.update_or_create(parent=, child=, defaults={"percent":})
\* on the table t: [raised, table, created].
AllocUpsert(t, parent, child, pct) ==
  LET found == {a \in Rows(t) : a.parent = parent /\ a.child = child}
      new == [parent |-> parent, child |-> child, percent |-> pct.v]
  IN IF ~DecimalOk(pct)
       THEN [raised |-> "ValidationError", table |-> t, created |-> FALSE]
     ELSE IF found = {}
       THEN [raised |-> NoneVal, table |-> t (+) SetToBag({new}), created |-> TRUE]
     ELSE IF Cardinality(found) = 1 /\ CopiesIn(CHOOSE a \in found : TRUE, t) = 1
       THEN [raised |-> NoneVal, table |-> (t (-) SetToBag(found)) (+) SetToBag({new}),
             created |-> FALSE]
     ELSE [raised |-> "MultipleObjectsReturned", table |-> t, created |-> FALSE]

SelfAllocation_never(row) == FALSE

\* "Prevent self-allocation": parent_ident == child_ident
SelfAllocation(row) == row.parent = row.child

\* Lines 88-146 for one row: [raised, table, created, updated].
AllocRowResult(ld, row) ==
  LET fail(exc) == [raised |-> exc, table |-> ld.txn, created |-> 0, updated |-> 0]
      pass == [raised |-> NoneVal, table |-> ld.txn, created |-> 0, updated |-> 0]
      org == IF ld.orgCol THEN row.org ELSE ld.orgObj
      parsed == Float(PctStrip(row.pct))
      parents == MeterGet(org, row.parent)
      children == MeterGet(org, row.child)
  IN IF ld.orgCol /\ row.org \notin orgs THEN fail("CommandError")
     ELSE IF SelfAllocation(row) THEN fail("CommandError")
     ELSE IF parsed = <<>> THEN fail("CommandError")
     ELSE IF FloatLt(parsed[1], Num(0)) \/ FloatGt(parsed[1], Num(100)) THEN fail("CommandError")
     ELSE IF Cardinality(parents) # 1 THEN fail("CommandError")
     ELSE IF Cardinality(children) # 1 THEN fail("CommandError")
     ELSE IF ld.dry THEN pass
     ELSE LET u == AllocUpsert(ld.txn, CHOOSE m \in parents : TRUE,
                               CHOOSE m \in children : TRUE, parsed[1])
          IN [raised |-> u.raised, table |-> u.table,
              created |-> IF u.raised = NoneVal /\ u.created THEN 1 ELSE 0,
              updated |-> IF u.raised = NoneVal /\ ~u.created THEN 1 ELSE 0]

LoaderIdle == load.pc \in {"idle", "done", "failed"}

\* The loop without the atomic block: every write is committed as it is made.
AllocAtomic_autocommit(before, txn, raised) == txn

\* with ... transaction.atomic(): what the table holds when the block is
\* left, by an exception (rollback) or at its end (commit).
AllocAtomic(before, txn, raised) == IF raised # NoneVal THEN before ELSE txn

\* Lines 34-86: the options, the header (with or without an org column), the
\* --org lookup, and the opening of the transaction.
AllocBegin ==
  \E dry \in BOOLEAN, orgCol \in BOOLEAN, cli \in {NoneVal, "Org1", "OrgX"} :
    LET headerError == ~orgCol /\ (cli = NoneVal \/ cli \notin orgs) IN
    /\ LoaderIdle
    /\ (orgCol => cli = NoneVal)
    /\ load' = [op |-> "load_allocations",
                pc |-> IF headerError THEN "failed" ELSE "rows",
                dry |-> dry, orgCol |-> orgCol,
                orgObj |-> IF orgCol \/ headerError THEN NoneVal ELSE cli,
                total |-> 0, created |-> 0, updated |-> 0,
                raised |-> IF headerError THEN "CommandError" ELSE NoneVal,
                errRow |-> 0, lastRow |-> <<>>, txn |-> allocs, before |-> allocs,
                stdout |-> <<>>]
    /\ UNCHANGED <<db, last, meters, orgs, buildings, accounts, allocs, formulas>>

\* One pass of "for row in reader": an exception leaves the atomic block,
\* which rolls the transaction back.
AllocRow ==
  \E row \in AllocRows :
    LET res == AllocRowResult(load, row) IN
    /\ load.op = "load_allocations" /\ load.pc = "rows"
    /\ load.total < MaxCsvRows
    /\ load' = IF res.raised # NoneVal
                 THEN [load EXCEPT !.pc = "failed", !.total = @ + 1, !.raised = res.raised,
                                   !.errRow = load.total + 1, !.lastRow = <<row>>,
                                   !.txn = load.before]
                 ELSE [load EXCEPT !.total = @ + 1, !.lastRow = <<row>>, !.txn = res.table,
                                   !.created = @ + res.created, !.updated = @ + res.updated]
    /\ allocs' = IF res.raised # NoneVal
                   THEN AllocAtomic(load.before, load.txn, res.raised)
                   ELSE allocs
    /\ UNCHANGED <<db, last, meters, orgs, buildings, accounts, formulas>>

\* End of file: the atomic block commits and the summary is printed.
AllocEnd ==
  /\ load.op = "load_allocations" /\ load.pc = "rows"
  /\ allocs' = AllocAtomic(load.before, load.txn, NoneVal)
  /\ load' = [load EXCEPT !.pc = "done",
                          !.stdout = <<[total |-> load.total, created |-> load.created,
                                        updated |-> load.updated]>>]
  /\ UNCHANGED <<db, last, meters, orgs, buildings, accounts, formulas>>

\* the catalogue the loaders run against: the meters above and a virtual one
LoaderMeters ==
  [m \in 1..4 |->
     IF m = 4 THEN Meter("Org1", "SiteA", "V1", "S4", MeterType.VIRTUAL, TRUE)
     ELSE Meters[m]]

InitLoaders ==
  /\ db = EmptyBag
  /\ last = NoRun
  /\ meters = LoaderMeters
  /\ orgs = OrgsOf(meters)
  /\ buildings = BuildingsOf(meters)
  /\ accounts = {}
  /\ allocs = EmptyBag
  /\ formulas = EmptyBag
  /\ load = NoLoad

NextAlloc == AllocBegin \/ AllocRow \/ AllocEnd

SpecAlloc == InitLoaders /\ [][NextAlloc]_vars

\* ============================================================ load_formulas
\* A datetime cell of the CSV: empty, unparsable, a naive wall time, a wall
\* time with a trailing Z, or a wall time with a UTC offset.
DtCell(form, wall, off) == [form |-> form, wall |-> wall, off |-> off]
DtEmpty == DtCell("empty", 0, 0)
DtBad == DtCell("bad", 0, 0)
DtNaive(w) == DtCell("naive", w, 0)
DtZulu(w) == DtCell("Z", w, 0)
DtOffset(w, o) == DtCell("offset", w, o)

\* parse_utc: [raised, dt], dt the UTC instant as <<t>>, or <<>> for None.
parse_utc(cell) ==
  LET raw == IF cell.form = "Z" THEN DtCell("offset", cell.wall, 0) ELSE cell
  IN IF raw.form = "empty" THEN [raised |-> NoneVal, dt |-> <<>>]
     ELSE IF raw.form = "bad" THEN [raised |-> "CommandError", dt |-> <<>>]
     ELSE IF raw.form = "naive" THEN [raised |-> NoneVal, dt |-> <<raw.wall>>]
     ELSE [raised |-> NoneVal, dt |-> <<raw.wall - raw.off>>]

\* One of the three number lookups of resolve_target_meter over the
\* queryset q: return a meter, raise, or fall through to the next lookup.
NumberStage(q, site, strict_site) ==
  LET q_site == {m \in q : meters[m].building = site}
  IN IF site # NoneVal /\ Cardinality(q_site) = 1
       THEN [out |-> "return", meter |-> CHOOSE m \in q_site : TRUE]
     ELSE IF site # NoneVal /\ strict_site THEN [out |-> "raise", meter |-> 0]
     ELSE IF Cardinality(q) = 1 THEN [out |-> "return", meter |-> CHOOSE m \in q : TRUE]
     ELSE IF Cardinality(q) > 1 THEN [out |-> "raise", meter |-> 0]
     ELSE [out |-> "next", meter |-> 0]

\* resolve_target_meter: priority MPxN (identifier, then external_id), then
\* serial (external_id), then identifier; "" stands for an empty cell.
resolve_target_meter(site, serial, mpx, ident, strict_site, expected_type) ==
  LET base == {m \in MeterIds : meters[m].meter_type = expected_type}
      skip == [out |-> "next", meter |-> 0]
      s1 == IF mpx # ""
              THEN NumberStage({m \in base : meters[m].identifier = mpx}, site, strict_site)
              ELSE skip
      s2 == IF mpx # ""
              THEN NumberStage({m \in base : meters[m].external_id = mpx}, site, strict_site)
              ELSE skip
      s3 == IF serial # ""
              THEN NumberStage({m \in base : meters[m].external_id = serial}, site, strict_site)
              ELSE skip
      q4 == {m \in base : /\ meters[m].identifier = ident
                          /\ (site # NoneVal => meters[m].building = site)}
      s4 == IF ident # "" /\ Cardinality(q4) = 1
              THEN [out |-> "return", meter |-> CHOOSE m \in q4 : TRUE]
              ELSE [out |-> "raise", meter |-> 0]
      pick == IF s1.out # "next" THEN s1
              ELSE IF s2.out # "next" THEN s2
              ELSE IF s3.out # "next" THEN s3
              ELSE s4
  IN [raised |-> IF pick.out = "raise" THEN "CommandError" ELSE NoneVal,
      meter |-> pick.meter]

FormulaRow(kind, tgt, expression, start, end) ==
  [kind |-> kind, site |-> tgt.site, serial |-> tgt.serial, mpx |-> tgt.mpx,
   ident |-> tgt.ident, expression |-> expression, start |-> start, end |-> end]

\* the cells of the CSVs loaded
TargetCell(site, serial, mpx, ident) ==
  [site |-> site, serial |-> serial, mpx |-> mpx, ident |-> ident]
TargetCells ==
  {TargetCell(NoneVal, "", "", "V1"), TargetCell(NoneVal, "", "", "M1"),
   TargetCell(NoneVal, "", "", "M3"), TargetCell("SiteB", "S4", "", "")}
KindCells == {"virtual", "sub", "fiscal"}
Expressions == {"a", "b"}
WindowCells ==
  {<<DtNaive(1), DtEmpty>>, <<DtNaive(1), DtZulu(2)>>,
   <<DtZulu(2), DtOffset(3, 1)>>, <<DtOffset(3, 1), DtNaive(1)>>,
   <<DtEmpty, DtEmpty>>, <<DtEmpty, DtZulu(2)>>, <<DtBad, DtEmpty>>}
FormulaRows ==
  {FormulaRow(k, t, "a", w[1], w[2]) :
     k \in KindCells, t \in TargetCells, w \in WindowCells}

\* A stored Formula row; start and end are <<t>>, end is <<>> when open.
FormulaRec(target, start, end, expression) ==
  [target_meter |-> target, start |-> start, end |-> end, expression |-> expression]

\* The insert of a Formula row as the table's constraints see it: start is
\* NOT NULL, and unique (target_meter, start, end) compares no NULL end.
FormulaInsert(t, new) ==
  IF new.start = <<>> THEN [raised |-> "IntegrityError", table |-> t]
  ELSE IF \E f \in Rows(t) : /\ f.target_meter = new.target_meter /\ f.start = new.start
                             /\ f.end # <<>> /\ f.end = new.end
    THEN [raised |-> "IntegrityError", table |-> t]
  ELSE [raised |-> NoneVal, table |-> t (+) SetToBag({new})]

FormulaUpsert_create(t, target, start, end, expression) ==
  LET ins == FormulaInsert(t, FormulaRec(target, start, end, expression))
  IN [raised |-> ins.raised, table |-> ins.table, created |-> TRUE]

\* Formula.objects.update_or_create(target_meter=, start=, end=,
\* defaults={"expression":}) on the table t: [raised, table, created].
FormulaUpsert(t, target, start, end, expression) ==
  LET found == {f \in Rows(t) : f.target_meter = target /\ f.start = start /\ f.end = end}
      new == FormulaRec(target, start, end, expression)
  IN IF found = {}
       THEN LET ins == FormulaInsert(t, new)
            IN [raised |-> ins.raised, table |-> ins.table, created |-> TRUE]
     ELSE IF Cardinality(found) = 1 /\ CopiesIn(CHOOSE f \in found : TRUE, t) = 1
       THEN [raised |-> NoneVal, table |-> (t (-) SetToBag(found)) (+) SetToBag({new}),
             created |-> FALSE]
     ELSE [raised |-> "MultipleObjectsReturned", table |-> t, created |-> FALSE]

\* Lines 213-275 for one row: [raised, skipped, table, created, updated].
FormulaRowResult(ld, row) ==
  LET out(exc, skipped, t, c, u) ==
        [raised |-> exc, skipped |-> skipped, table |-> t, created |-> c, updated |-> u]
      fail(exc) == out(exc, FALSE, ld.txn, 0, 0)
      kind == IF ld.kindCol THEN row.kind ELSE "sub"
      expected_type == IF kind = "virtual" THEN MeterType.VIRTUAL ELSE MeterType.SUB
      start_dt == parse_utc(row.start)
      end_dt == parse_utc(row.end)
      res == resolve_target_meter(row.site, row.serial, row.mpx, row.ident,
                                  ld.strict_site, expected_type)
  IN IF kind \notin {"virtual", "sub"} THEN out(NoneVal, TRUE, ld.txn, 0, 0)
     ELSE IF start_dt.raised # NoneVal THEN fail(start_dt.raised)
     ELSE IF end_dt.raised # NoneVal THEN fail(end_dt.raised)
     ELSE IF end_dt.dt # <<>> /\ start_dt.dt = <<>> THEN fail("TypeError")
     ELSE IF end_dt.dt # <<>> /\ start_dt.dt[1] >= end_dt.dt[1] THEN fail("CommandError")
     ELSE IF res.raised # NoneVal THEN fail("CommandError")
     ELSE IF meters[res.meter].meter_type # expected_type THEN fail("CommandError")
     ELSE IF ld.dry THEN out(NoneVal, FALSE, ld.txn, 0, 0)
     ELSE LET u == FormulaUpsert(ld.txn, res.meter, start_dt.dt, end_dt.dt, row.expression)
          IN out(u.raised, FALSE, u.table,
                 IF u.raised = NoneVal /\ u.created THEN 1 ELSE 0,
                 IF u.raised = NoneVal /\ ~u.created THEN 1 ELSE 0)

\* What the run record keeps of the row just read: its kind and window
\* cells, and what a run without --dry-run raises on it.
RowSeen(ld, row) ==
  [kind |-> IF ld.kindCol THEN row.kind ELSE "sub", start |-> row.start, end |-> row.end,
   real |-> FormulaRowResult([ld EXCEPT !.dry = FALSE], row).raised]

\* Lines 145-211: the options, the header (with or without a kind column)
\* and the opening of the transaction.
FormulaBegin ==
  \E dry \in BOOLEAN, strict_site \in BOOLEAN, kindCol \in BOOLEAN :
    /\ LoaderIdle
    /\ load' = [op |-> "load_formulas", pc |-> "rows", dry |-> dry,
                strict_site |-> strict_site, kindCol |-> kindCol,
                total |-> 0, created |-> 0, updated |-> 0, raised |-> NoneVal,
                errRow |-> 0, lastRow |-> <<>>, txn |-> formulas, before |-> formulas,
                stdout |-> <<>>]
    /\ UNCHANGED <<db, last, meters, orgs, buildings, accounts, allocs, formulas>>

\* One pass of "for i, row in enumerate(reader, start=2)": an exception
\* leaves the atomic block, which rolls the transaction back.
FormulaStep ==
  \E row \in FormulaRows :
    LET res == FormulaRowResult(load, row) IN
    /\ load.op = "load_formulas" /\ load.pc = "rows"
    /\ load.total < MaxCsvRows
    /\ load' = IF res.raised # NoneVal
                 THEN [load EXCEPT !.pc = "failed", !.total = @ + 1, !.raised = res.raised,
                                   !.errRow = load.total + 2,
                                   !.lastRow = <<RowSeen(load, row)>>,
                                   !.txn = load.before]
                 ELSE [load EXCEPT !.total = @ + 1, !.lastRow = <<RowSeen(load, row)>>,
                                   !.txn = res.table,
                                   !.created = @ + res.created, !.updated = @ + res.updated]
    /\ UNCHANGED <<db, last, meters, orgs, buildings, accounts, allocs, formulas>>

\* End of file: the atomic block commits and the summary is printed.
FormulaEnd ==
  /\ load.op = "load_formulas" /\ load.pc = "rows"
  /\ formulas' = load.txn
  /\ load' = [load EXCEPT !.pc = "done",
                          !.stdout = <<[total |-> load.total, created |-> load.created,
                                        updated |-> load.updated]>>]
  /\ UNCHANGED <<db, last, meters, orgs, buildings, accounts, allocs>>

NextFormula == FormulaBegin \/ FormulaStep \/ FormulaEnd

SpecFormula == InitLoaders /\ [][NextFormula]_vars

\* ------------------------------------------- load_formulas, the same CSV twice
\* The CSV files loaded twice: rows for the virtual meter, by identifier or
\* by serial number, over equal and different windows and expressions.
ReloadRows ==
  {FormulaRow("virtual", t, e, w[1], w[2]) :
     t \in {TargetCell(NoneVal, "", "", "V1"), TargetCell("SiteB", "S4", "", "")},
     e \in Expressions,
     w \in {<<DtZulu(2), DtEmpty>>, <<DtOffset(3, 1), DtEmpty>>, <<DtNaive(1), DtZulu(2)>>}}

ReloadFiles == UNION {[1..n -> ReloadRows] : n \in 0..MaxCsvRows}

\* the Formula tables the first load may find
ReloadTables == {EmptyBag, SetToBag({FormulaRec(4, <<2>>, <<>>, "b")})}

InitReload ==
  /\ db = EmptyBag
  /\ last = NoRun
  /\ meters = LoaderMeters
  /\ orgs = OrgsOf(meters)
  /\ buildings = BuildingsOf(meters)
  /\ accounts = {}
  /\ allocs = EmptyBag
  /\ formulas \in ReloadTables
  /\ load = NoLoad

\* load_formulas <csv>, for the first time.
ReloadBegin ==
  \E csv \in ReloadFiles :
    /\ load.pc = "idle"
    /\ load' = [op |-> "load_formulas", pc |-> "rows", dry |-> FALSE,
                strict_site |-> FALSE, kindCol |-> TRUE,
                total |-> 0, created |-> 0, updated |-> 0, raised |-> NoneVal,
                errRow |-> 0, lastRow |-> <<>>, txn |-> formulas, before |-> formulas,
                stdout |-> <<>>, csv |-> csv, pass |-> 1, once |-> formulas]
    /\ UNCHANGED <<db, last, meters, orgs, buildings, accounts, allocs, formulas>>

\* The next row of the file, through the loop body of lines 213-275.
ReloadStep ==
  LET row == load.csv[load.total + 1]
      res == FormulaRowResult(load, row) IN
  /\ load.op = "load_formulas" /\ load.pc = "rows"
  /\ load.total < Len(load.csv)
  /\ load' = IF res.raised # NoneVal
               THEN [load EXCEPT !.pc = "failed", !.total = @ + 1, !.raised = res.raised,
                                 !.errRow = load.total + 2,
                                 !.lastRow = <<RowSeen(load, row)>>,
                                 !.txn = load.before]
               ELSE [load EXCEPT !.total = @ + 1, !.lastRow = <<RowSeen(load, row)>>,
                                 !.txn = res.table,
                                 !.created = @ + res.created, !.updated = @ + res.updated]
  /\ UNCHANGED <<db, last, meters, orgs, buildings, accounts, allocs, formulas>>

\* End of the file: commit and summary.
ReloadEnd ==
  /\ load.op = "load_formulas" /\ load.pc = "rows"
  /\ load.total = Len(load.csv)
  /\ formulas' = load.txn
  /\ load' = [load EXCEPT !.pc = "done",
                          !.stdout = <<[total |-> load.total, created |-> load.created,
                                        updated |-> load.updated]>>]
  /\ UNCHANGED <<db, last, meters, orgs, buildings, accounts, allocs>>

\* load_formulas <csv> again, on the table the first load left.
ReloadAgain ==
  /\ load.op = "load_formulas" /\ load.pc \in {"done", "failed"}
  /\ load.pass = 1
  /\ load' = [load EXCEPT !.pc = "rows", !.total = 0, !.created = 0, !.updated = 0,
                          !.raised = NoneVal, !.errRow = 0, !.lastRow = <<>>,
                          !.txn = formulas, !.before = formulas, !.stdout = <<>>,
                          !.pass = 2, !.once = formulas]
  /\ UNCHANGED <<db, last, meters, orgs, buildings, accounts, allocs, formulas>>

NextReload == ReloadBegin \/ ReloadStep \/ ReloadEnd \/ ReloadAgain

SpecReload == InitReload /\ [][NextReload]_vars

\* =========================================================== load_hierarchy
\* A data row of the hierarchy CSV, by its cells.
HierRow(org, building, account, identifier, parent_identifier) ==
  [org |-> org, building |-> building, account |-> account, identifier |-> identifier,
   external_id |-> "", meter_type |-> "sub", parent_identifier |-> parent_identifier,
   unit |-> "kWh", is_active |-> "true"]

\* the rows of the CSVs loaded: meters N1, N2 of the stored organization
\* Org1 or of the new Org2, with no parent, with each other, the stored M1
\* or the unknown ZZ as parent.
HierRows ==
  {HierRow("Org1", "SiteA", "", i, p) : i \in {"N1", "N2"}, p \in {"", "N1", "N2", "M1", "ZZ"}}
  \cup
  {HierRow("Org2", "SiteC", "Acc1", i, p) : i \in {"N1", "N2"}, p \in {"", "N1", "N2", "M1", "ZZ"}}

\* is_active = (is_active_raw or "true").lower() in {"1", "true", "yes", "y"}
IsActive(raw) == (IF raw = "" THEN "true" ELSE raw) \in {"1", "true", "yes", "y"}

\* Meter.objects.get(org=, identifier=) on the Meter table ms: the pks matching.
GetIn(ms, org, ident) ==
  {pk \in DOMAIN ms : ms[pk].org = org /\ ms[pk].identifier = ident}

\* Meter.objects.get_or_create(org=, identifier=, defaults=...) for the
\* buffered row m: a stored meter is left as it is.
MeterGetOrCreate(ms, m) ==
  LET n == Cardinality(DOMAIN ms)
      new == [org |-> m.org, building |-> m.building,
              account |-> IF m.account = "" THEN NoneVal ELSE m.account,
              identifier |-> m.identifier,
              external_id |-> IF m.external_id = "" THEN NoneVal ELSE m.external_id,
              meter_type |-> m.meter_type, parent |-> 0, unit |-> m.unit,
              is_active |-> IsActive(m.is_active)]
  IN IF GetIn(ms, m.org, m.identifier) # {} THEN ms
     ELSE [pk \in 1..(n + 1) |-> IF pk <= n THEN ms[pk] ELSE new]

\* Lines 180-187 for one buffered row: [raised, ms].
WireParent(st, m) ==
  LET child == GetIn(st.ms, m.org, m.identifier)
      parent == GetIn(st.ms, m.org, m.parent_identifier)
  IN IF m.parent_identifier = "" THEN st
     ELSE IF Cardinality(child) # 1 \/ Cardinality(parent) # 1
       THEN [st EXCEPT !.raised = "DoesNotExist"]
     ELSE [st EXCEPT !.ms = [@ EXCEPT ![CHOOSE c \in child : TRUE].parent =
                                         CHOOSE q \in parent : TRUE]]

\* "create meters": for m in meter_buffer
RECURSIVE CreateMeters(_, _, _)
CreateMeters(ms, buffer, i) ==
  IF i > Len(buffer) THEN ms
  ELSE CreateMeters(MeterGetOrCreate(ms, buffer[i]), buffer, i + 1)

\* "wire parents": for ... in parent_links
RECURSIVE WireParents(_, _, _)
WireParents(st, buffer, i) ==
  IF i > Len(buffer) \/ st.raised # NoneVal THEN st
  ELSE WireParents(WireParent(st, buffer[i]), buffer, i + 1)

\* One loop that creates the meter of a row and wires its parent at once.
RECURSIVE CreateAndWire(_, _, _)
CreateAndWire(st, buffer, i) ==
  IF i > Len(buffer) \/ st.raised # NoneVal THEN st
  ELSE CreateAndWire(WireParent([st EXCEPT !.ms = MeterGetOrCreate(@, buffer[i])], buffer[i]),
                     buffer, i + 1)

SecondPass_singlepass(ms, buffer, dry_run) ==
  IF dry_run THEN [raised |-> NoneVal, ms |-> ms]
  ELSE CreateAndWire([raised |-> NoneVal, ms |-> ms], buffer, 1)

\* Lines 151-187: the second pass, both loops skipped row by row in a dry run.
SecondPass(ms, buffer, dry_run) ==
  IF dry_run THEN [raised |-> NoneVal, ms |-> ms]
  ELSE WireParents([raised |-> NoneVal, ms |-> CreateMeters(ms, buffer, 1)], buffer, 1)

\* The second pass without the atomic block: its writes stay.
HierAtomic_autocommit(before, txn, raised) == txn

\* with transaction.atomic(): around the second pass only.
HierAtomic(before, txn, raised) == IF raised # NoneVal THEN before ELSE txn

\* the Meter tables a run may find: the loaders' catalogue, or that
\* catalogue after an earlier load stored N1 of Org1 under M1
HierCatalogs ==
  {LoaderMeters,
   [pk \in 1..5 |->
      IF pk = 5 THEN [Meter("Org1", "SiteA", "N1", NoneVal, MeterType.SUB, TRUE)
                        EXCEPT !.parent = 1]
      ELSE LoaderMeters[pk]]}

InitHierarchy ==
  /\ db = EmptyBag
  /\ last = NoRun
  /\ meters \in HierCatalogs
  /\ orgs = OrgsOf(meters)
  /\ buildings = BuildingsOf(meters)
  /\ accounts = {}
  /\ allocs = EmptyBag
  /\ formulas = EmptyBag
  /\ load = NoLoad

\* Lines 25-82: the options and the header.
HierBegin ==
  \E dry_run \in BOOLEAN :
    /\ load.pc = "idle"
    /\ load' = [op |-> "load_hierarchy", pc |-> "rows", dry |-> dry_run,
                meter_buffer |-> <<>>, row_count |-> 0, raised |-> NoneVal,
                created |-> [org |-> 0, building |-> 0, account |-> 0, meter |-> 0],
                before |-> [meters |-> meters, orgs |-> orgs, buildings |-> buildings,
                            accounts |-> accounts],
                txn |-> meters, stdout |-> <<>>]
    /\ UNCHANGED <<db, last, meters, orgs, buildings, accounts, allocs, formulas>>

\* Lines 86-147, one row of the first pass: outside any transaction, the
\* organization, building and account are fetched or created (not in a dry
\* run) and the meter is buffered.
HierFirstPass ==
  \E r \in HierRows :
    LET b == [org |-> r.org, name |-> r.building]
        a == [org |-> r.org, name |-> r.account]
        newOrg == ~load.dry /\ r.org \notin orgs
        newBld == ~load.dry /\ b \notin buildings
        newAcct == ~load.dry /\ r.account # "" /\ a \notin accounts
    IN /\ load.op = "load_hierarchy" /\ load.pc = "rows"
       /\ load.row_count < MaxCsvRows
       /\ orgs' = IF load.dry THEN orgs ELSE orgs \cup {r.org}
       /\ buildings' = IF load.dry THEN buildings ELSE buildings \cup {b}
       /\ accounts' = IF load.dry \/ r.account = "" THEN accounts ELSE accounts \cup {a}
       /\ load' = [load EXCEPT !.meter_buffer = Append(@, r), !.row_count = @ + 1,
                               !.created.org = @ + (IF newOrg THEN 1 ELSE 0),
                               !.created.building = @ + (IF newBld THEN 1 ELSE 0),
                               !.created.account = @ + (IF newAcct THEN 1 ELSE 0)]
       /\ UNCHANGED <<db, last, meters, allocs, formulas>>

\* Lines 150-194: the second pass in its atomic block, then the summary.
HierSecondPass ==
  LET st == SecondPass(meters, load.meter_buffer, load.dry)
      made == Cardinality(DOMAIN st.ms) - Cardinality(DOMAIN meters)
  IN /\ load.op = "load_hierarchy" /\ load.pc = "rows"
     /\ meters' = HierAtomic(meters, st.ms, st.raised)
     /\ load' = [load EXCEPT !.pc = IF st.raised # NoneVal THEN "failed" ELSE "done",
                             !.raised = st.raised, !.txn = st.ms,
                             !.created.meter = made,
                             !.stdout = IF st.raised # NoneVal THEN <<>>
                                        ELSE <<[rows |-> load.row_count,
                                                created |-> [load.created EXCEPT !.meter = made]]>>]
     /\ UNCHANGED <<db, last, orgs, buildings, accounts, allocs, formulas>>

NextHierarchy == HierBegin \/ HierFirstPass \/ HierSecondPass

SpecHierarchy == InitHierarchy /\ [][NextHierarchy]_vars

\* ================================================================ properties
RunDone == last.op = "compute"

Range(sq) == {sq[i] : i \in DOMAIN sq}

Cons(table, m) == {r \in Rows(table) : r.meter = m /\ r.kind = Kind.CONSUMPTION}

StrictlyIncreasing(reads) ==
  \A i \in 1..(Len(reads) - 1) : reads[i][2] < reads[i + 1][2]

NonNegDeltas == {d \in Range(last.deltas) : d.delta >= 0}
NegDeltas == {i \in DOMAIN last.deltas : last.deltas[i].delta < 0}

RaisedAtPair(m, t1) ==
  last.raisedAt # <<>> /\ last.raisedAt[1].meter = m /\ last.raisedAt[1].ts = t1

\* C1: after a run, every selected meter whose Accumulated readings
\* (t0,v0),...,(tn,vn), n >= 1, strictly increase has exactly the n
\* Consumption readings (ti, vi - v(i-1)), i = 1..n.
C1_PairwiseDifferences ==
  RunDone =>
    \A m \in Range(last.order) :
      LET rs == Reads(last.before, m) IN
      (Len(rs) >= 2 /\ StrictlyIncreasing(rs)) =>
        /\ {<<r.ts, r.value>> : r \in Cons(db, m)}
             = {<<rs[i][1], rs[i][2] - rs[i - 1][2]>> : i \in 2..Len(rs)}
        /\ \A r \in Cons(db, m) : CopiesIn(r, db) = 1

\* C2: a pair with a negative delta writes no Consumption reading at t1, and
\* the output of a completed run reports, besides the count of written
\* intervals, the number of negative-delta pairs it met.
C2_NegativeDeltaFlagged ==
  (RunDone /\ last.raised = NoneVal /\ NegDeltas # {}) =>
    /\ \A i \in NegDeltas :
         ~\E r \in Cons(db, last.deltas[i].meter) : r.ts = last.deltas[i].t1
    /\ \E k \in DOMAIN last.stdout :
         /\ last.stdout[k].msg # "Wrote/updated consumption intervals."
         /\ last.stdout[k].n = Cardinality(NegDeltas)

\* C3: the write of the Consumption reading for (m, t1) does not fail on the
\* Accumulated reading stored for (m, t1); afterwards both are stored.
C3_UpsertKeyIncludesKind ==
  RunDone =>
    \A d \in NonNegDeltas :
      /\ ~RaisedAtPair(d.meter, d.t1)
      /\ \E r \in Rows(db) :
           r.meter = d.meter /\ r.ts = d.t1 /\ r.kind = Kind.ACCUMULATED /\ r.value = d.v1
      /\ \E r \in Rows(db) :
           r.meter = d.meter /\ r.ts = d.t1 /\ r.kind = Kind.CONSUMPTION

\* C4: every pair with delta >= 0 is written without raising, as a
\* Consumption reading at t1 with value delta, classification System, source
\* System and the unit of the meter's Accumulated series.
C4_ConsumptionPointFields ==
  RunDone =>
    \A d \in NonNegDeltas :
      /\ last.raised = NoneVal
      /\ BagIn(Row(d.meter, d.t1, d.delta, Reads(last.before, d.meter)[1][3],
                   "System", "System", Kind.CONSUMPTION), db)

InWindow(t) ==
  /\ (last.opts.since # <<>> => last.opts.since[1] <= t)
  /\ (last.opts.until # <<>> => t < last.opts.until[1])

\* C6: with --since / --until, every delta is computed between two readings
\* inside [since, until), and no write is attempted outside it.
C6_WindowBound ==
  RunDone =>
    /\ \A d \in Range(last.deltas) : InWindow(d.t0) /\ InWindow(d.t1)
    /\ (last.raisedAt # <<>> => InWindow(last.raisedAt[1].ts))
    /\ \A r \in Rows(db) : (r.kind = Kind.CONSUMPTION /\ ~BagIn(r, last.before)) => InWindow(r.ts)

RowsOf(table, m) == {r \in Rows(table) : r.meter = m}

\* C8: a meter of the run with fewer than two Accumulated readings is a
\* no-op: no delta, no write and no error for it, and the next meter of the
\* run is still processed.
C8_FewerThanTwoIsNoOp ==
  RunDone =>
    /\ Len(last.visited) <= Len(last.order)
    /\ \A i \in DOMAIN last.visited :
         /\ last.visited[i] = last.order[i]
         /\ Len(Reads(last.before, last.visited[i])) < 2 =>
              LET m == last.visited[i] IN
              /\ \A d \in Range(last.deltas) : d.meter # m
              /\ (last.raisedAt # <<>> => last.raisedAt[1].meter # m)
              /\ RowsOf(db, m) = RowsOf(last.before, m)
              /\ \A r \in RowsOf(db, m) : CopiesIn(r, db) = CopiesIn(r, last.before)
              /\ (i < Len(last.order) => i < Len(last.visited))

C8_Witness ==
  /\ RunDone
  /\ \E i \in DOMAIN last.visited :
       /\ Len(Reads(last.before, last.visited[i])) < 2
       /\ i < Len(last.visited)
       /\ \E d \in Range(last.deltas) : d.meter = last.visited[i + 1]

InScope(m) ==
  /\ meters[m].meter_type = MeterType.SUB
  /\ meters[m].is_active
  /\ (last.opts.site # NoneVal => meters[m].building = last.opts.site)

\* C20: a run leaves the readings of every meter that is not an active Sub
\* meter of the requested site as they were, and neither differences nor
\* attempts a write for such a meter.
C20_OnlyActiveSubInScope ==
  RunDone =>
    \A m \in MeterIds :
      ~InScope(m) =>
        /\ RowsOf(db, m) = RowsOf(last.before, m)
        /\ \A r \in RowsOf(db, m) : CopiesIn(r, db) = CopiesIn(r, last.before)
        /\ m \notin Range(last.visited)
        /\ \A d \in Range(last.deltas) : d.meter # m
        /\ (last.raisedAt # <<>> => last.raisedAt[1].meter # m)

C20_Witness ==
  /\ RunDone
  /\ \E m \in MeterIds : ~InScope(m) /\ Len(Reads(last.before, m)) >= 2
  /\ last.visited # <<>>

\* ------------------------------------------------- load_allocations claims
AllocRun == load.op = "load_allocations"
AllocLast == load.lastRow[1]
AllocRead == AllocRun /\ load.lastRow # <<>>

\* C14: load_allocations never stores an allocation whose parent and child
\* are the same meter; the row whose parent identifier equals its child
\* identifier fails the command with an error naming that row, and the
\* table is then as it was before the CSV, earlier rows included.
C14_NoSelfAllocation ==
  /\ \A a \in Rows(allocs) : a.parent # a.child
  /\ AllocRun => \A a \in Rows(load.txn) : a.parent # a.child
  /\ (AllocRead /\ AllocLast.parent = AllocLast.child) =>
       /\ load.pc = "failed"
       /\ load.raised = "CommandError"
       /\ load.errRow = load.total
       /\ load.txn = load.before
       /\ allocs = load.before

\* A real run fails on a self-allocation in its second row, after its first
\* row was accepted, over a table that earlier loads filled.
C14_Witness ==
  /\ AllocRead /\ AllocLast.parent = AllocLast.child
  /\ AllocLast.parent = "M1" /\ AllocLast.pct.text = "60"
  /\ (load.orgCol => AllocLast.org = "Org1")
  /\ ~load.dry
  /\ load.total = 2
  /\ allocs # EmptyBag

\* C15: every allocation stored has 0 <= percent <= 100, and a row whose
\* percent parses to a value outside [0,100], NaN and the infinities
\* included, fails the command and leaves the table as it was.
PctParsed(row) == Float(PctStrip(row.pct))
PctWithin(f) == f.tag = "num" /\ 0 <= f.v /\ f.v <= 100
C15_PercentWithinRange ==
  /\ \A a \in Rows(allocs) : 0 <= a.percent /\ a.percent <= 100
  /\ (AllocRead /\ PctParsed(AllocLast) # <<>> /\ ~PctWithin(PctParsed(AllocLast)[1])) =>
       /\ load.pc = "failed"
       /\ allocs = load.before

\* ---------------------------------------------------- load_formulas claims
FormulaRun == load.op = "load_formulas"
FormulaRead == FormulaRun /\ load.lastRow # <<>>
FormulaLast == load.lastRow[1]

\* end present and start >= end, or no usable start
BadWindow(seen) ==
  LET s == parse_utc(seen.start)
      e == parse_utc(seen.end)
  IN \/ s.raised # NoneVal
     \/ s.dt = <<>>
     \/ (e.raised = NoneVal /\ e.dt # <<>> /\ s.dt[1] >= e.dt[1])

WindowOrdered(t) == \A f \in Rows(t) : f.start # <<>> /\ (f.end = <<>> \/ f.start[1] < f.end[1])

\* C16: every stored Formula has end absent or start < end, and a CSV row
\* with an end present and start >= end, or with no usable start, fails the
\* command and leaves the Formula table as it was.
C16_StartBeforeEnd ==
  /\ WindowOrdered(formulas)
  /\ (FormulaRun => WindowOrdered(load.txn))
  /\ (FormulaRead /\ BadWindow(FormulaLast)) =>
       /\ load.pc = "failed"
       /\ formulas = load.before

\* C17: the target meter of every stored Formula is of type Virtual.
C17_TargetIsVirtual ==
  /\ \A f \in Rows(formulas) : meters[f.target_meter].meter_type = MeterType.VIRTUAL
  /\ FormulaRun =>
       \A f \in Rows(load.txn) : meters[f.target_meter].meter_type = MeterType.VIRTUAL

\* C19: a --dry-run of load_formulas changes no row, and fails on a row
\* exactly when a run without --dry-run fails on it.
C19_DryRunFaithful ==
  (FormulaRun /\ load.dry) =>
    /\ formulas = load.before
    /\ load.txn = load.before
    /\ load.lastRow # <<>> => ((load.pc = "failed") <=> (FormulaLast.real # NoneVal))

\* the (target meter, start, end) a row of the file stands for
RowKey(row) ==
  [target_meter |-> resolve_target_meter(row.site, row.serial, row.mpx, row.ident,
                                         FALSE, MeterType.VIRTUAL).meter,
   start |-> parse_utc(row.start).dt, end |-> parse_utc(row.end).dt]
KeyOf(f) == [target_meter |-> f.target_meter, start |-> f.start, end |-> f.end]

OnePerKey(t) ==
  \A f \in Rows(t) :
    /\ CopiesIn(f, t) = 1
    /\ \A g \in Rows(t) : KeyOf(g) = KeyOf(f) => g = f

Reloaded == FormulaRun /\ load.pass = 2 /\ load.pc \in {"done", "failed"}

\* C18: at most one Formula row per (target meter, start, end), the open
\* end included; after a load each key of the file holds the expression of
\* the last row of the file with that key; and the second load of the same
\* CSV leaves the rows the first load left.
C18_OneRowPerVersion ==
  /\ OnePerKey(formulas)
  /\ FormulaRun =>
       /\ OnePerKey(load.txn)
       /\ load.pc = "done" =>
            \A i \in 1..Len(load.csv) :
              (\A j \in (i + 1)..Len(load.csv) : RowKey(load.csv[j]) # RowKey(load.csv[i])) =>
                \E f \in Rows(formulas) :
                  KeyOf(f) = RowKey(load.csv[i]) /\ f.expression = load.csv[i].expression
       /\ Reloaded => formulas = load.once

\* The file loaded twice holds two rows for the same open-ended version with
\* different expressions, written with different datetime texts; the second
\* load created no row and updated both times.
C18_Witness ==
  /\ Reloaded /\ load.pc = "done"
  /\ Len(load.csv) = 2
  /\ RowKey(load.csv[1]) = RowKey(load.csv[2])
  /\ load.csv[1].end = DtEmpty
  /\ load.csv[1].start # load.csv[2].start
  /\ load.csv[1].expression # load.csv[2].expression
  /\ load.created = 0 /\ load.updated = 2
  /\ formulas # EmptyBag

C24_DropIsNewBaseline ==
  RunDone =>
    \A i \in DOMAIN last.deltas :
      \A j \in DOMAIN last.deltas :
        LET a == last.deltas[i]
            b == last.deltas[j]
        IN (j = i + 1 /\ a.meter = b.meter /\ a.delta < 0 /\ b.delta >= 0) =>
             /\ b.t0 = a.t1 /\ b.v0 = a.v1
             /\ ~\E r \in Cons(db, a.meter) : r.ts = a.t1
             /\ \E r \in Cons(db, b.meter) : r.ts = b.t1 /\ r.value = b.v1 - a.v1

\* ----------------------------------------------- load_allocations, continued
Edges(t) == {<<a.parent, a.child>> : a \in Rows(t)}

\* the meters reached from the set S over at most n edges
RECURSIVE ReachFrom(_, _, _)
ReachFrom(E, S, n) ==
  IF n = 0 THEN S
  ELSE ReachFrom(E, S \cup {e[2] : e \in {x \in E : x[1] \in S}}, n - 1)

Acyclic(t) ==
  \A m \in MeterIds :
    m \notin ReachFrom(Edges(t), {e[2] : e \in {x \in Edges(t) : x[1] = m}},
                       Cardinality(MeterIds))

\* C22: the allocation graph stored by load_allocations has no cycle; the
\* edges A -> B and B -> A are never both stored.
C22_NoCircularAllocation ==
  /\ Acyclic(allocs)
  /\ \A a \in Rows(allocs) : \A b \in Rows(allocs) :
       ~(a.parent = b.child /\ a.child = b.parent)

\* C25: when a row of the CSV fails, whatever the error, the allocations
\* stored are those stored before the run.
C25_AllOrNothing ==
  (AllocRun /\ load.pc = "failed") => allocs = load.before

\* A run without --dry-run fails on its second row after its first row
\* created or updated an allocation.
C25_Witness ==
  /\ AllocRun /\ load.pc = "failed"
  /\ ~load.dry
  /\ load.total = 2
  /\ load.created + load.updated >= 1

\* --------------------------------------------------- load_hierarchy claims
HierRun == load.op = "load_hierarchy"
HierDone == HierRun /\ load.pc = "done" /\ ~load.dry
HierFailed == HierRun /\ load.pc = "failed" /\ ~load.dry

\* the meter of row r has the meter named by r's parent cell as its parent
ParentWired(r) ==
  \E c \in GetIn(meters, r.org, r.identifier) :
    \E q \in GetIn(meters, r.org, r.parent_identifier) : meters[c].parent = q

\* the parent cell of r names a meter of r's organization, stored before the
\* run or with a row of its own anywhere in the CSV
ParentKnown(r) ==
  \/ GetIn(load.before.meters, r.org, r.parent_identifier) # {}
  \/ \E j \in DOMAIN load.meter_buffer :
       /\ load.meter_buffer[j].org = r.org
       /\ load.meter_buffer[j].identifier = r.parent_identifier

\* a second pass fails only on a parent cell that names no meter
FailsOnlyOnUnknownParent ==
  HierFailed =>
    \E i \in DOMAIN load.meter_buffer :
      /\ load.meter_buffer[i].parent_identifier # ""
      /\ ~ParentKnown(load.meter_buffer[i])

\* C23: after a successful run every row with a non-empty parent cell P has
\* its meter under the meter P of the same organization, wherever the row
\* of P stands in the CSV; the order of the rows makes no run fail.
C23_ParentsWiredAnyOrder ==
  /\ HierDone =>
       \A i \in DOMAIN load.meter_buffer :
         load.meter_buffer[i].parent_identifier # "" => ParentWired(load.meter_buffer[i])
  /\ FailsOnlyOnUnknownParent

\* row i is the last row of the CSV that gives its meter a parent
LastLink(i) ==
  \A j \in DOMAIN load.meter_buffer :
    (/\ j > i
     /\ load.meter_buffer[j].org = load.meter_buffer[i].org
     /\ load.meter_buffer[j].identifier = load.meter_buffer[i].identifier)
      => load.meter_buffer[j].parent_identifier = ""

\* C23, amended: the same for the last row that gives a meter a parent; when
\* two rows of a CSV give one meter different parents the later row wins.
C23_LastParentWired ==
  /\ HierDone =>
       \A i \in DOMAIN load.meter_buffer :
         (load.meter_buffer[i].parent_identifier # "" /\ LastLink(i)) =>
           ParentWired(load.meter_buffer[i])
  /\ FailsOnlyOnUnknownParent

\* A successful run whose first row names as parent a meter that only the
\* second row creates.
C23_Witness ==
  /\ HierDone
  /\ Len(load.meter_buffer) = 2
  /\ load.meter_buffer[1].parent_identifier = load.meter_buffer[2].identifier
  /\ load.meter_buffer[1].org = load.meter_buffer[2].org
  /\ load.meter_buffer[1].identifier # load.meter_buffer[2].identifier
  /\ GetIn(load.before.meters, load.meter_buffer[2].org, load.meter_buffer[2].identifier) = {}
  /\ load.created.meter = 2

\* C26: when the second pass of a run without --dry-run fails, the Meter
\* table is as before the run, and the organization, building and account
\* of every row read in the first pass are stored.
C26_FirstPassStays ==
  HierFailed =>
    /\ meters = load.before.meters
    /\ \A i \in DOMAIN load.meter_buffer :
         LET r == load.meter_buffer[i] IN
         /\ r.org \in orgs
         /\ [org |-> r.org, name |-> r.building] \in buildings
         /\ (r.account # "" => [org |-> r.org, name |-> r.account] \in accounts)

\* The failed run created an organization, a building and an account in its
\* first pass and a meter in its second pass before the exception.
C26_Witness ==
  /\ HierFailed
  /\ load.raised = "DoesNotExist"
  /\ orgs # load.before.orgs
  /\ buildings # load.before.buildings
  /\ accounts # load.before.accounts
  /\ Cardinality(DOMAIN load.txn) > Cardinality(DOMAIN load.before.meters)
====
